---------------------------- MODULE Spec2Model ----------------------------
(***************************************************************************)
(* A model of albumentations/core/transforms_interface.py:                 *)
(*   - BasicTransform.__call__ and the dispatch, alias and replay          *)
(*     machinery around it (specification Spec; SpecDefault for an         *)
(*     instance constructed with the default arguments; SpecShared for     *)
(*     two instances recording into one store);                            *)
(*   - the routing of data keys by the target profiles (SpecResolve);      *)
(*   - to_tuple (specification SpecToTuple);                               *)
(*   - the Boxes / Keypoints batches and the per-record apply functions    *)
(*     of DualTransform (specification SpecBatch).                         *)
(***************************************************************************)
EXTENDS Integers, Sequences, FiniteSets, TLC

VARIABLES
    insts,      \* instance identity -> the BasicTransform instance's fields
    store,      \* the caller-owned replay store: instance identity -> params
    made,       \* instance identity -> the merged parameters that its latest
                \* recording call generated
    last,       \* what the latest operation on a transform did
    recd,       \* the recording call the controller restored for replay
    ttIn,       \* to_tuple: the arguments
    ttOut,      \* to_tuple: the result
    batch,      \* the Boxes / Keypoints batch under test
    bop         \* what the latest operation on the batch did

tvars == <<insts, store, made, last, recd>>
bvars == <<batch, bop>>
vars == <<insts, store, made, last, recd, ttIn, ttOut, batch, bop>>

---------------------------------------------------------------------------
(* Python dictionaries are functions with a finite domain of keys.         *)

EmptyDict == [k \in {} |-> 0]

\* dict.update / dict(d, **e): the keys of e win.
Upd(d, e) ==
    [k \in (DOMAIN d) \cup (DOMAIN e) |-> IF k \in DOMAIN e THEN e[k] ELSE d[k]]

Restrict(d, ks) == [k \in (DOMAIN d) \cap ks |-> d[k]]

SeqToSet(s) == {s[i] : i \in DOMAIN s}

\* Python's None where a parameter mapping is expected.
NoneParams == [none_value |-> 0]

---------------------------------------------------------------------------
(* Data values.  A value is an opaque buffer (base, shape) together with   *)
(* the apply functions that were run on it, each with the keyword          *)
(* arguments it received: pp are the parameters, dd the target             *)
(* dependencies merged on top of them.                                     *)

Null == [base |-> 0, shape |-> <<0, 0>>, hist |-> <<>>]
StoreRef == [base |-> -1, shape |-> <<0, 0>>, hist |-> <<>>]
Raw(b, r, c) == [base |-> b, shape |-> <<r, c>>, hist |-> <<>>]

Applied(fn, arg, pp, dd) ==
    [arg EXCEPT !.hist = Append(@, [fn |-> fn, pp |-> pp, dd |-> dd])]


---------------------------------------------------------------------------
(* The transform classes under test.  "Base" keeps every default of        *)
(* BasicTransform (get_params returns {}, no targets_as_params, no         *)
(* target_dependence, no interpolation or fill attributes); "Custom"       *)
(* overrides each of these hooks.  Both route targets as DualTransform     *)
(* does and have a concrete apply.                                         *)

Classes == {"Base", "Custom"}

\* cv2.INTER_NEAREST, forced on masks by apply_to_mask.
INTER_NEAREST == 0

\* The interpolation mode a Custom instance declares (cv2.INTER_LINEAR).
INTER_LINEAR == 1

\* The declared attributes update_params looks for with hasattr.
Attrs(cls) ==
    IF cls = "Custom" THEN [interpolation |-> INTER_LINEAR] ELSE EmptyDict

\* The targets_as_params property.
targets_as_params(cls) ==
    IF cls = "Custom" THEN <<"image", "mask">> ELSE <<>>

\* The target_dependence property.
target_dependence(cls) ==
    IF cls = "Custom" THEN [image |-> <<"mask">>] ELSE EmptyDict

\* DualTransform.targets: target kind -> the name of the apply function.
DualTargets ==
    [image |-> "apply", mask |-> "apply_to_mask", masks |-> "apply_to_masks",
     bboxes |-> "apply_to_bboxes", keypoints |-> "apply_to_keypoints"]

\* ImageOnlyTransform.targets
ImageOnlyTargets == [image |-> "apply"]

\* ReferenceBasedTransform.targets
ReferenceTargets ==
    [global_label |-> "apply_to_global_label", image |-> "apply",
     mask |-> "apply_to_mask", bboxes |-> "apply_to_bboxes",
     keypoints |-> "apply_to_keypoints"]

\* The targets property of a class: "ImageOnly" and "Reference" are the
\* two other profiles, every other class is a DualTransform.
targets(cls) ==
    CASE cls = "ImageOnly" -> ImageOnlyTargets
      [] cls = "Reference" -> ReferenceTargets
      [] OTHER -> DualTargets

\* get_params_dependent_on_targets of the Custom class: a parameter read
\* off the targets it is handed.
get_params_dependent_on_targets(cls, tap) == [dep |-> tap["mask"].base]

---------------------------------------------------------------------------
(* BasicTransform                                                          *)

\* __init__
NewTransform(cls, always_apply, p) ==
    [cls |-> cls, p |-> p, always_apply |-> always_apply,
     additional_targets |-> EmptyDict,
     deterministic |-> FALSE, save_key |-> "replay", params |-> EmptyDict,
     replay_mode |-> FALSE, applied_in_replay |-> FALSE]

\* A resolution that falls back to apply, not to the identity.
get_target_function_apply(self, key) ==
    LET transform_key == IF key \in DOMAIN self.additional_targets
                         THEN self.additional_targets[key] ELSE key
    IN  IF transform_key \in DOMAIN targets(self.cls)
        THEN targets(self.cls)[transform_key] ELSE "apply"

\* _get_target_function: the name of the function a data key is routed to;
\* "identity" is the lambda x, **p: x.
get_target_function(self, key) ==
    LET transform_key == IF key \in DOMAIN self.additional_targets
                         THEN self.additional_targets[key] ELSE key
    IN  IF transform_key \in DOMAIN targets(self.cls)
        THEN targets(self.cls)[transform_key] ELSE "identity"

\* DualTransform.apply_to_mask: apply, with interpolation forced to nearest.
MaskParams(d) ==
    [k \in DOMAIN d |-> IF k = "interpolation" THEN INTER_NEAREST ELSE d[k]]

\* target_function(arg, **dict(params, **target_dependencies))
TargetCall(fn, arg, params, deps) ==
    LET pp == Restrict(params, (DOMAIN params) \ (DOMAIN deps))
    IN  CASE fn = "identity" -> arg
          [] fn = "apply_to_mask" -> Applied("apply", arg, MaskParams(pp), deps)
          [] OTHER -> Applied(fn, arg, pp, deps)

\* An update_params that takes rows and cols from the first key of the
\* data that is aliased to "image" when there is no "image" key.
update_params_alias(self, params, kw) ==
    LET p1 == Upd(params, Restrict(Attrs(self.cls),
                     {"interpolation", "fill_value", "mask_fill_value"}))
        als == {k \in DOMAIN kw : /\ k \in DOMAIN self.additional_targets
                                  /\ self.additional_targets[k] = "image"
                                  /\ kw[k] # Null}
        src == IF "image" \in DOMAIN kw THEN {"image"} ELSE als
    IN  IF src = {}
        THEN [err |-> "KeyError", params |-> p1]
        ELSE LET im == kw[CHOOSE k \in src : TRUE] IN
             IF im = Null
             THEN [err |-> "AttributeError", params |-> p1]
             ELSE [err |-> "none",
                   params |-> Upd(p1, [cols |-> im.shape[2],
                                       rows |-> im.shape[1]])]

\* update_params: mutates and returns params; fails when there is no image
\* to read rows and cols from (after the declared attributes were copied).
update_params(self, params, kw) ==
    LET p1 == Upd(params, Restrict(Attrs(self.cls),
                     {"interpolation", "fill_value", "mask_fill_value"}))
    IN  IF "image" \notin DOMAIN kw
        THEN [err |-> "KeyError", params |-> p1]
        ELSE IF kw["image"] = Null
        THEN [err |-> "AttributeError", params |-> p1]
        ELSE [err |-> "none",
              params |-> Upd(p1, [cols |-> kw["image"].shape[2],
                                  rows |-> kw["image"].shape[1]])]

\* The order in which kwargs.items() yields the caller's keys.
KeyOrder == <<"image", "mask", "aux", "replay", "rec">>

\* A dispatch loop that merges each key's target dependencies into the
\* shared parameter mapping, so that later keys receive them too.
RECURSIVE DispatchFrom_leak(_, _, _, _, _)
DispatchFrom_leak(self, params, kw, i, acc) ==
    IF i > Len(KeyOrder) \/ acc.err # "none" THEN acc
    ELSE LET key == KeyOrder[i] IN
         IF key \notin DOMAIN kw
         THEN DispatchFrom_leak(self, params, kw, i + 1, acc)
         ELSE IF kw[key] = Null
         THEN DispatchFrom_leak(self, params, kw, i + 1,
                  [acc EXCEPT !.out = Upd(@, [k \in {key} |-> Null])])
         ELSE LET fn == get_target_function(self, key)
                  dk == IF key \in DOMAIN target_dependence(self.cls)
                        THEN SeqToSet(target_dependence(self.cls)[key]) ELSE {}
              IN  IF ~(dk \subseteq DOMAIN kw)
                  THEN [acc EXCEPT !.err = "KeyError"]
                  ELSE LET deps == Restrict(kw, dk)
                           merged == Upd(params, [k \in dk |-> kw[k].base])
                           res == TargetCall(fn, kw[key], params, deps)
                       IN  DispatchFrom_leak(self, merged, kw, i + 1,
                             [acc EXCEPT
                                !.out = Upd(@, [k \in {key} |-> res]),
                                !.log = Append(@, [key |-> key, fn |-> fn,
                                                   arg |-> kw[key],
                                                   params |-> params,
                                                   deps |-> deps])])

\* The loop of apply_with_params over keys[i..]: acc is [err, out, log].
RECURSIVE DispatchFrom(_, _, _, _, _)
DispatchFrom(self, params, kw, i, acc) ==
    IF i > Len(KeyOrder) \/ acc.err # "none" THEN acc
    ELSE LET key == KeyOrder[i] IN
         IF key \notin DOMAIN kw THEN DispatchFrom(self, params, kw, i + 1, acc)
         ELSE IF kw[key] = Null
         THEN DispatchFrom(self, params, kw, i + 1,
                  [acc EXCEPT !.out = Upd(@, [k \in {key} |-> Null])])
         ELSE LET fn == get_target_function(self, key)
                  dk == IF key \in DOMAIN target_dependence(self.cls)
                        THEN SeqToSet(target_dependence(self.cls)[key]) ELSE {}
              IN  IF ~(dk \subseteq DOMAIN kw)
                  THEN [acc EXCEPT !.err = "KeyError"]
                  ELSE LET deps == Restrict(kw, dk)
                           res == TargetCall(fn, kw[key], params, deps)
                       IN  DispatchFrom(self, params, kw, i + 1,
                             [acc EXCEPT
                                !.out = Upd(@, [k \in {key} |-> res]),
                                !.log = Append(@, [key |-> key, fn |-> fn,
                                                   arg |-> kw[key],
                                                   params |-> params,
                                                   deps |-> deps])])

\* apply_with_params: [err, out, log, params], params being the mapping it
\* was handed as update_params left it (the caller's dict is mutated).
apply_with_params(self, params, kw) ==
    IF params = NoneParams
    THEN [err |-> "none", out |-> kw, log |-> <<>>, params |-> params]
    ELSE LET up == update_params(self, params, kw) IN
         IF up.err # "none"
         THEN [err |-> up.err, out |-> EmptyDict, log |-> <<>>,
               params |-> up.params]
         ELSE LET d == DispatchFrom(self, up.params, kw, 1,
                          [err |-> "none", out |-> EmptyDict, log |-> <<>>])
              IN  [err |-> d.err,
                   out |-> IF d.err = "none" THEN d.out ELSE EmptyDict,
                   log |-> d.log, params |-> up.params]

\* A store entry that is the live mapping itself, not a copy of it.
RecordedEntry_live(atRecord, afterDispatch) == afterDispatch

\* deepcopy(params): the stored entry is a snapshot, independent of what
\* update_params later does to the live mapping.
RecordedEntry(atRecord, afterDispatch) == atRecord

\* A fire condition that compares with <= .
Fires_le(self, draw, force_apply) ==
    (draw <= self.p) \/ self.always_apply \/ force_apply

\* random.random() < self.p or self.always_apply or force_apply
Fires(self, draw, force_apply) ==
    (draw < self.p) \/ self.always_apply \/ force_apply


\* What a call that does nothing reports: the data as passed.
Quiet(self, kw, st) ==
    [self |-> self, store |-> st, err |-> "none", out |-> kw,
     fired |-> FALSE, log |-> <<>>, ndraw |-> 0, nget |-> 0,
     ndep |-> 0, tap |-> EmptyDict, wrote |-> FALSE]

\* A replay branch that draws parameters afresh (the get_params default)
\* instead of taking the restored self.params.
ReplayBranch_fresh(self, kw, st) ==
    IF self.applied_in_replay THEN
        LET r == apply_with_params(self, EmptyDict, kw) IN
        [Quiet(self, kw, st) EXCEPT !.err = r.err, !.out = r.out, !.log = r.log]
    ELSE Quiet(self, kw, st)

\* A replay branch that does not look at applied_in_replay.
ReplayBranch_always(self, kw, st) ==
    LET r == apply_with_params(self, self.params, kw) IN
    [Quiet(self, kw, st) EXCEPT
        !.self = [self EXCEPT !.params = r.params],
        !.err = r.err, !.out = r.out, !.log = r.log]

\* __call__, the replay_mode branch: apply self.params, or pass through.
ReplayBranch(self, kw, st) ==
    IF self.applied_in_replay THEN
        LET r == apply_with_params(self, self.params, kw) IN
        [Quiet(self, kw, st) EXCEPT
            !.self = [self EXCEPT !.params = r.params],
            !.err = r.err, !.out = r.out, !.log = r.log]
    ELSE Quiet(self, kw, st)

\* A firing branch that looks for the targets_as_params keys only after the
\* store write.
FireBranch_latecheck(self, id, kw, gen, st) ==
    LET fire == [Quiet(self, kw, st) EXCEPT
                    !.fired = TRUE, !.ndraw = 1, !.nget = 1,
                    !.out = EmptyDict]
        tapKeys == SeqToSet(targets_as_params(self.cls))
    IN
    IF self.deterministic /\ self.save_key \notin DOMAIN kw
    THEN [fire EXCEPT !.err = "KeyError"]
    ELSE
        LET f1 == IF self.deterministic
                  THEN [fire EXCEPT
                          !.wrote = TRUE,
                          !.store = Upd(st, [i \in {id} |-> gen])]
                  ELSE fire
        IN
        IF tapKeys # {} /\ ~(tapKeys \subseteq DOMAIN kw)
        THEN [f1 EXCEPT !.err = "AssertionError"]
        ELSE
            LET tap == Restrict(kw, tapKeys)
                params == IF tapKeys # {}
                          THEN Upd(gen, get_params_dependent_on_targets(
                                            self.cls, tap))
                          ELSE gen
                f2 == IF tapKeys # {}
                      THEN [f1 EXCEPT !.ndep = 1, !.tap = tap] ELSE f1
                r == apply_with_params(self, params, kw)
            IN  [f2 EXCEPT !.err = r.err, !.out = r.out, !.log = r.log]

\* A firing branch that marks the instance as applied when it records.
FireBranch_marks(self, id, kw, gen, st) ==
    LET fire == [Quiet(self, kw, st) EXCEPT
                    !.fired = TRUE, !.ndraw = 1, !.nget = 1,
                    !.out = EmptyDict]
        tapKeys == SeqToSet(targets_as_params(self.cls))
    IN
    IF tapKeys # {} /\ ~(tapKeys \subseteq DOMAIN kw)
    THEN [fire EXCEPT !.err = "AssertionError"]
    ELSE
        LET tap == Restrict(kw, tapKeys)
            params == IF tapKeys # {}
                      THEN Upd(gen, get_params_dependent_on_targets(
                                        self.cls, tap))
                      ELSE gen
            f2 == IF tapKeys # {}
                  THEN [fire EXCEPT !.ndep = 1, !.tap = tap] ELSE fire
        IN
        IF self.deterministic /\ self.save_key \notin DOMAIN kw
        THEN [f2 EXCEPT !.err = "KeyError"]
        ELSE
            LET r == apply_with_params(self, params, kw)
                f3 == IF self.deterministic
                      THEN [f2 EXCEPT
                              !.wrote = TRUE,
                              !.self = [self EXCEPT
                                          !.applied_in_replay = TRUE],
                              !.store = Upd(st, [i \in {id} |->
                                          RecordedEntry(params, r.params)])]
                      ELSE f2
            IN  [f3 EXCEPT !.err = r.err, !.out = r.out, !.log = r.log]

\* __call__, the branch taken when the fire condition holds.
FireBranch(self, id, kw, gen, st) ==
    LET fire == [Quiet(self, kw, st) EXCEPT
                    !.fired = TRUE, !.ndraw = 1, !.nget = 1,
                    !.out = EmptyDict]
        tapKeys == SeqToSet(targets_as_params(self.cls))
    IN
    IF tapKeys # {} /\ ~(tapKeys \subseteq DOMAIN kw)
    THEN [fire EXCEPT !.err = "AssertionError"]
    ELSE
        LET tap == Restrict(kw, tapKeys)
            params == IF tapKeys # {}
                      THEN Upd(gen, get_params_dependent_on_targets(self.cls, tap))
                      ELSE gen
            f2 == IF tapKeys # {}
                  THEN [fire EXCEPT !.ndep = 1, !.tap = tap] ELSE fire
        IN
        IF self.deterministic /\ self.save_key \notin DOMAIN kw
        THEN [f2 EXCEPT !.err = "KeyError"]
        ELSE
            LET r == apply_with_params(self, params, kw)
                f3 == IF self.deterministic
                      THEN [f2 EXCEPT
                              !.wrote = TRUE,
                              !.store = Upd(st, [i \in {id} |->
                                          RecordedEntry(params, r.params)])]
                      ELSE f2
            IN  [f3 EXCEPT !.err = r.err, !.out = r.out, !.log = r.log]

\* A call that looks at the fire condition before it looks at replay_mode.
DoCall_firefirst(self, id, kw, force_apply, draw, gen, st) ==
    IF ~Fires(self, draw, force_apply)
    THEN [Quiet(self, kw, st) EXCEPT !.ndraw = 1]
    ELSE IF self.replay_mode THEN ReplayBranch(self, kw, st)
    ELSE FireBranch(self, id, kw, gen, st)

\* A call that marks the instance as applied when it is skipped.
DoCall_resets(self, id, kw, force_apply, draw, gen, st) ==
    IF self.replay_mode THEN ReplayBranch(self, kw, st)
    ELSE IF Fires(self, draw, force_apply)
    THEN FireBranch(self, id, kw, gen, st)
    ELSE [Quiet(self, kw, st) EXCEPT
            !.ndraw = 1, !.self = [self EXCEPT !.applied_in_replay = TRUE]]

\* __call__ with named data kw (the replay store, when the caller passes
\* it, is the value StoreRef under the key it is passed as).  id is
\* id(self), st the content of the caller's replay store, gen what
\* get_params returns if it is called, draw what random.random() returns if
\* it is called.
DoCall(self, id, kw, force_apply, draw, gen, st) ==
    IF self.replay_mode THEN ReplayBranch(self, kw, st)
    ELSE IF Fires(self, draw, force_apply)
    THEN FireBranch(self, id, kw, gen, st)
    ELSE [Quiet(self, kw, st) EXCEPT !.ndraw = 1]

\* set_deterministic without the reserved-word check.
set_deterministic_unchecked(self, flag, save_key) ==
    [err |-> "none",
     self |-> [self EXCEPT !.deterministic = flag, !.save_key = save_key]]

\* set_deterministic: [err, self]
set_deterministic(self, flag, save_key) ==
    IF save_key = "params"
    THEN [err |-> "AssertionError", self |-> self]
    ELSE [err |-> "none",
          self |-> [self EXCEPT !.deterministic = flag, !.save_key = save_key]]

\* add_targets
add_targets(self, additional_targets) ==
    [self EXCEPT !.additional_targets = additional_targets]


---------------------------------------------------------------------------
(* The environment of a transform: what callers pass.                      *)

\* random.random() returns draw / Scale, p is p / Scale.
Scale == 2
Draws == 0 .. (Scale - 1)
PValues == 0 .. Scale

\* get_params of a Custom instance returns one of MaxGen parameter sets.
MaxGen == 2
GenParams(cls) ==
    IF cls = "Custom" THEN {[angle |-> a] : a \in 1 .. MaxGen} ELSE {EmptyDict}

Images == {Raw(1, 2, 3)}
Mask == Raw(10, 2, 3)
Aux == Raw(20, 1, 1)

Absent == [base |-> -2, shape |-> <<0, 0>>, hist |-> <<>>]

\* The named data of a call: each key is left out, None or a value.
MkKw(im, mk, ax, sk) ==
    LET full == [image |-> im, mask |-> mk, aux |-> ax,
                 replay |-> IF sk = "replay" THEN StoreRef ELSE Absent,
                 rec |-> IF sk = "rec" THEN StoreRef ELSE Absent]
    IN  [k \in {x \in DOMAIN full : full[x] # Absent} |-> full[k]]

ImageChoices == {Absent} \cup Images
MaskChoices == {Absent, Null, Mask}
AuxChoices == {Aux}

\* The alias mappings callers register.
AliasMaps ==
    {EmptyDict, [aux |-> "image"], [aux |-> "mask", m2 |-> "mask"]}

SaveKeys == {"replay", "rec", "params"}

Idle == [op |-> "idle"]
NoRec == [valid |-> FALSE]
NoBatchYet == [exists |-> FALSE]

\* Whether the latest operation was a call that fired, recorded its
\* parameters in the store and returned.
Recorded(l) ==
    /\ l.op = "call"
    /\ l.res.fired /\ l.res.wrote /\ l.res.err = "none"

\* The parameter mapping of a firing call as it is at line 249, before the
\* store write and update_params: what get_params returned, with what
\* get_params_dependent_on_targets returned merged on top.
Merged(cls, gen, kw) ==
    IF targets_as_params(cls) = <<>> THEN gen
    ELSE Upd(gen, get_params_dependent_on_targets(cls,
                      Restrict(kw, SeqToSet(targets_as_params(cls)))))

\* Whether a call of self on kw that fired gets as far as the store write
\* of line 255: deterministic is set, the caller passed the store under
\* save_key and no key of targets_as_params is missing.
Records(self, kw, fired) ==
    /\ fired /\ self.deterministic
    /\ self.save_key \in DOMAIN kw
    /\ SeqToSet(targets_as_params(self.cls)) \subseteq DOMAIN kw

---------------------------------------------------------------------------
(* Specification Spec: one transform instance, its caller and the          *)
(* pipeline controller that switches it to replay.                         *)

\* The parts of the state a specification leaves alone.
NoTransform ==
    /\ insts = <<>> /\ store = EmptyDict /\ made = EmptyDict
    /\ last = Idle /\ recd = NoRec
NoToTuple == ttIn = <<>> /\ ttOut = <<>>
NoBatch == batch = NoBatchYet /\ bop = Idle

Init ==
    /\ \E cls \in Classes, pa \in ({FALSE} \X PValues) \cup {<<TRUE, 0>>} :
          insts = [i \in {1} |-> NewTransform(cls, pa[1], pa[2])]
    /\ store = EmptyDict
    /\ made = EmptyDict
    /\ last = Idle
    /\ recd = NoRec
    /\ NoToTuple /\ NoBatch

\* transform(force_apply=..., **kw)
Call(i) ==
    /\ last = Idle
    /\ \E im \in ImageChoices, mk \in MaskChoices, ax \in AuxChoices,
          hasStore \in BOOLEAN, force_apply \in BOOLEAN, draw \in Draws,
          gen \in GenParams(insts[i].cls) :
          LET kw == MkKw(im, mk, ax,
                         IF hasStore THEN insts[i].save_key ELSE "none")
              res == DoCall(insts[i], i, kw, force_apply, draw, gen, store)
          IN  /\ insts' = [insts EXCEPT ![i] = res.self]
              /\ store' = res.store
              /\ last' = [op |-> "call", id |-> i, pre |-> insts[i],
                          st0 |-> store, kw |-> kw,
                          force_apply |-> force_apply, draw |-> draw,
                          gen |-> gen, res |-> res]
              /\ made' = IF Records(insts[i], kw, res.fired)
                         THEN Upd(made, [j \in {i} |->
                                           Merged(insts[i].cls, gen, kw)])
                         ELSE made
    /\ UNCHANGED <<recd, ttIn, ttOut, batch, bop>>

\* transform(image): positional data is refused before anything else.
CallPositional(i) ==
    /\ last = Idle
    /\ last' = [op |-> "positional", id |-> i, err |-> "KeyError"]
    /\ UNCHANGED <<insts, store, made, recd, ttIn, ttOut, batch, bop>>

AddTargets(i) ==
    /\ last = Idle
    /\ \E m \in AliasMaps :
          /\ insts' = [insts EXCEPT ![i] = add_targets(insts[i], m)]
          /\ last' = [op |-> "add_targets", id |-> i, pre |-> insts[i],
                      arg |-> m]
          \* a restored recording is kept only while the alias table is
          \* the one it was recorded with
          /\ recd' = IF recd.valid /\ recd.id = i
                         /\ m # recd.additional_targets
                     THEN NoRec ELSE recd
    /\ UNCHANGED <<store, made, ttIn, ttOut, batch, bop>>

SetDeterministic(i) ==
    /\ last = Idle
    /\ \E flag \in BOOLEAN, save_key \in SaveKeys :
          LET r == set_deterministic(insts[i], flag, save_key) IN
          /\ insts' = [insts EXCEPT ![i] = r.self]
          /\ last' = [op |-> "set_deterministic", id |-> i, pre |-> insts[i],
                      flag |-> flag, save_key |-> save_key, err |-> r.err]
    /\ UNCHANGED <<store, made, recd, ttIn, ttOut, batch, bop>>

\* The controlling pipeline switches the instance to replay: it takes the
\* store of the recording pass, restores the parameters recorded for the
\* instance (or None) and says whether the instance applied.
RestoreForReplay(i) ==
    /\ \E applied \in BOOLEAN, useNone \in BOOLEAN :
          /\ useNone \/ i \in DOMAIN store
          /\ insts' = [insts EXCEPT ![i] =
                          [@ EXCEPT !.replay_mode = TRUE,
                                    !.applied_in_replay = applied,
                                    !.params = IF useNone THEN NoneParams
                                               ELSE store[i]]]
          /\ recd' = IF Recorded(last) /\ last.id = i /\ ~useNone
                     THEN [valid |-> TRUE, id |-> i, kw |-> last.kw,
                           out |-> last.res.out, entry |-> store[i],
                           additional_targets |-> last.pre.additional_targets]
                     ELSE NoRec
    /\ store' = EmptyDict
    /\ made' = EmptyDict
    /\ last' = Idle
    /\ UNCHANGED <<ttIn, ttOut, batch, bop>>

\* The caller is done with the result of the latest operation.  The
\* restored recording is kept only while the instance's parameters are
\* still as they were recorded.
Consume ==
    /\ last # Idle
    /\ last' = Idle
    /\ recd' = IF recd.valid /\ insts[recd.id].params # recd.entry
               THEN NoRec ELSE recd
    /\ UNCHANGED <<insts, store, made, ttIn, ttOut, batch, bop>>

Next ==
    \/ \E i \in DOMAIN insts : Call(i)
    \/ \E i \in DOMAIN insts : CallPositional(i)
    \/ \E i \in DOMAIN insts : AddTargets(i)
    \/ \E i \in DOMAIN insts : SetDeterministic(i)
    \/ \E i \in DOMAIN insts : RestoreForReplay(i)
    \/ Consume

Spec == Init /\ [][Next]_vars

\* Specification SpecDefault: the same, for an instance constructed with
\* always_apply false and a p strictly between 0 and 1.
InitDefault ==
    /\ Init
    /\ \A i \in DOMAIN insts : ~insts[i].always_apply /\ insts[i].p = 1

SpecDefault == InitDefault /\ [][Next]_vars

\* Specification SpecResolve: the routing of data keys, for an instance of
\* each target profile and the alias tables callers register.
Profiles == {"Base", "ImageOnly", "Reference"}

DataKeys ==
    {"image", "mask", "masks", "bboxes", "keypoints", "global_label",
     "aux", "m2", "replay"}

InitResolve ==
    /\ \E cls \in Profiles :
          insts = [i \in {1} |-> NewTransform(cls, FALSE, 1)]
    /\ store = EmptyDict
    /\ made = EmptyDict
    /\ last = Idle
    /\ recd = NoRec
    /\ NoToTuple /\ NoBatch

\* transform._get_target_function(key)
Resolve(i) ==
    /\ last = Idle
    /\ \E key \in DataKeys :
          last' = [op |-> "resolve", id |-> i, pre |-> insts[i], key |-> key,
                   fn |-> get_target_function(insts[i], key)]
    /\ UNCHANGED <<insts, store, made, recd, ttIn, ttOut, batch, bop>>

NextResolve ==
    \/ \E i \in DOMAIN insts : Resolve(i)
    \/ \E i \in DOMAIN insts : AddTargets(i)
    \/ Consume

SpecResolve == InitResolve /\ [][NextResolve]_vars

\* Specification SpecShared: the same transform twice in one pipeline, two
\* instances of one class whose calls are handed the same replay store.
InitShared ==
    /\ \E cls \in Classes :
          insts = [i \in {1, 2} |-> NewTransform(cls, FALSE, 1)]
    /\ store = EmptyDict
    /\ made = EmptyDict
    /\ last = Idle
    /\ recd = NoRec
    /\ NoToTuple /\ NoBatch

NextShared ==
    \/ \E i \in DOMAIN insts : Call(i)
    \/ \E i \in DOMAIN insts : SetDeterministic(i)
    \/ Consume

SpecShared == InitShared /\ [][NextShared]_vars


---------------------------------------------------------------------------
(* Claims about the transform call.                                        *)

IsCall == last.op = "call"

\* The latest call reached dispatch and returned a mapping.
Dispatched ==
    /\ IsCall
    /\ last.res.err = "none"
    /\ \/ last.res.fired
       \/ /\ last.pre.replay_mode /\ last.pre.applied_in_replay
          /\ last.pre.params # NoneParams

\* The latest call replays, on the same data and with the same alias
\* table, the recording that was restored into the instance.
ReplaysRecording ==
    /\ IsCall
    /\ recd.valid /\ recd.id = last.id
    /\ last.pre.replay_mode /\ last.pre.applied_in_replay
    /\ last.pre.params = recd.entry
    /\ last.kw = recd.kw
    /\ last.pre.additional_targets = recd.additional_targets

\* C1: a call in replay mode, with applied_in_replay set and params equal
\* to the entry a recording call of the same instance stored, on data equal
\* to the recording call's, returns for every key the value the recording
\* call returned, whatever p, always_apply, force_apply and the draw are
\* (the instance's alias table being the one the recording call ran with).
C1_RecordThenReplay ==
    ReplaysRecording =>
        /\ last.res.err = "none"
        /\ DOMAIN last.res.out = DOMAIN recd.out
        /\ \A k \in DOMAIN recd.out : last.res.out[k] = recd.out[k]

\* A replay of a recording in a call that would neither fire nor draw the
\* recorded parameters, and that dispatches two keys or more.
C1_Witness ==
    /\ ReplaysRecording
    /\ ~last.force_apply /\ ~last.pre.always_apply /\ last.draw >= last.pre.p
    /\ \A k \in DOMAIN last.gen : last.gen[k] # recd.entry[k]
    /\ DOMAIN last.gen # {}
    /\ Len(last.res.log) >= 2

\* C2: a call in replay mode on an instance whose applied_in_replay is
\* false returns the named data as passed, for every input: nothing is
\* dispatched, no parameters are generated, nothing fails and neither the
\* store nor the instance is written.
C2_ReplayNotApplied ==
    (IsCall /\ last.pre.replay_mode /\ ~last.pre.applied_in_replay) =>
        /\ last.res.err = "none"
        /\ last.res.out = last.kw
        /\ last.res.log = <<>>
        /\ last.res.nget = 0 /\ last.res.ndep = 0 /\ last.res.ndraw = 0
        /\ ~last.res.wrote /\ last.res.store = last.st0
        /\ last.res.self = last.pre

\* Such a call on data with no "image" key and without a key listed in
\* targets_as_params, with restored parameters at hand.
C2_Witness ==
    /\ IsCall /\ last.pre.replay_mode /\ ~last.pre.applied_in_replay
    /\ "image" \notin DOMAIN last.kw
    /\ targets_as_params(last.pre.cls) # <<>>
    /\ ~(SeqToSet(targets_as_params(last.pre.cls)) \subseteq DOMAIN last.kw)
    /\ last.pre.params # NoneParams /\ last.pre.params # EmptyDict
    /\ last.res.out = last.kw

\* C3: outside replay mode a call fires exactly when draw < p or
\* always_apply or force_apply; with p = 1.0 every call fires, and with
\* p = 0.0, always_apply false and force_apply false none fires and the
\* named data is returned unchanged.
C3_FireCondition ==
    (IsCall /\ ~last.pre.replay_mode) =>
        /\ last.res.fired <=>
              (last.draw < last.pre.p \/ last.pre.always_apply \/ last.force_apply)
        /\ (last.pre.p = Scale) => last.res.fired
        /\ (last.pre.p = 0 /\ ~last.pre.always_apply /\ ~last.force_apply) =>
              /\ ~last.res.fired
              /\ last.res.err = "none"
              /\ last.res.out = last.kw

\* A call with p = 1.0 and the largest draw fires, unforced.
C3_Witness ==
    /\ IsCall /\ ~last.pre.replay_mode
    /\ last.pre.p = Scale /\ last.draw = Scale - 1
    /\ ~last.pre.always_apply /\ ~last.force_apply
    /\ last.res.fired

\* C4: a firing call generates parameters once (one get_params call, at
\* most one get_params_dependent_on_targets call) and every key it
\* dispatches receives the same parameter mapping, in which the generated
\* parameters are as generated; only the target dependencies differ.
C4_SharedParams ==
    (IsCall /\ last.res.fired) =>
        /\ last.res.nget = 1
        /\ last.res.ndep <= 1
        /\ \A a, b \in DOMAIN last.res.log :
              last.res.log[a].params = last.res.log[b].params
        /\ \A a \in DOMAIN last.res.log : \A k \in DOMAIN last.gen :
              /\ k \in DOMAIN last.res.log[a].params
              /\ last.res.log[a].params[k] = last.gen[k]

\* A firing call that dispatches three keys, one of them with target
\* dependencies, on generated parameters.
C4_Witness ==
    /\ IsCall /\ last.res.fired /\ last.res.err = "none"
    /\ Len(last.res.log) >= 3
    /\ DOMAIN last.gen # {}
    /\ \E a \in DOMAIN last.res.log : DOMAIN last.res.log[a].deps # {}

\* C5: the output of a dispatching call has exactly the keys of the named
\* data; a key whose value is None maps to None, and a key that after
\* alias substitution is not in the targets table maps to its input value.
C5_OutputKeys ==
    Dispatched =>
        /\ DOMAIN last.res.out = DOMAIN last.kw
        /\ \A k \in DOMAIN last.kw :
              /\ (last.kw[k] = Null) => (last.res.out[k] = Null)
              /\ LET al == last.pre.additional_targets
                     tk == IF k \in DOMAIN al THEN al[k] ELSE k
                 IN  (tk \notin DOMAIN targets(last.pre.cls)) =>
                        (last.res.out[k] = last.kw[k])

\* A dispatching call on data with a None value, an unrecognised key and a
\* transformed image.
C5_Witness ==
    /\ Dispatched
    /\ \E k \in DOMAIN last.kw : last.kw[k] = Null
    /\ "aux" \in DOMAIN last.kw
    /\ "aux" \notin DOMAIN last.pre.additional_targets
    /\ last.res.out["aux"] = last.kw["aux"]
    /\ last.res.out["image"] # last.kw["image"]

\* C6: add_targets merges with last write wins per key: after the call
\* each key of its argument resolves to the kind the argument gives, and
\* each alias registered before and not mentioned in the argument is still
\* in effect.
C6_AddTargetsMerges ==
    (last.op = "add_targets") =>
        LET now == insts[last.id].additional_targets IN
        /\ \A k \in DOMAIN last.arg :
              k \in DOMAIN now /\ now[k] = last.arg[k]
        /\ \A k \in (DOMAIN last.pre.additional_targets) \ (DOMAIN last.arg) :
              /\ k \in DOMAIN now
              /\ now[k] = last.pre.additional_targets[k]
              /\ get_target_function(insts[last.id], k) =
                    get_target_function(last.pre, k)

\* C7: set_deterministic with save_key "params" fails and leaves
\* deterministic and save_key as they were, so that save_key is never
\* "params"; with any other save_key it sets both fields of the instance
\* and changes nothing else.
C7_ReservedSaveKey ==
    /\ \A i \in DOMAIN insts : insts[i].save_key # "params"
    /\ (last.op = "set_deterministic") =>
          IF last.save_key = "params"
          THEN /\ last.err # "none"
               /\ insts[last.id] = last.pre
          ELSE /\ last.err = "none"
               /\ insts[last.id] =
                    [last.pre EXCEPT !.deterministic = last.flag,
                                     !.save_key = last.save_key]

\* set_deterministic(False, "params") refused on an instance that records
\* under "rec".
C7_Witness ==
    /\ last.op = "set_deterministic"
    /\ last.save_key = "params" /\ ~last.flag
    /\ last.pre.deterministic /\ last.pre.save_key = "rec"
    /\ insts[last.id].deterministic /\ insts[last.id].save_key = "rec"

\* The keys of targets_as_params that the latest call's data lacks.
MissingTargets ==
    SeqToSet(targets_as_params(last.pre.cls)) \ DOMAIN last.kw

\* C12: a firing call of a transform that declares targets_as_params
\* fails whenever a listed key is absent from the named data, and then
\* get_params_dependent_on_targets was not called, nothing was written to
\* the store and no apply function ran; when every listed key is present
\* get_params_dependent_on_targets received exactly the listed keys with
\* the caller's values.
C12_TargetsAsParams ==
    (IsCall /\ last.res.fired /\ targets_as_params(last.pre.cls) # <<>>) =>
        IF MissingTargets # {}
        THEN /\ last.res.err # "none"
             /\ last.res.ndep = 0
             /\ ~last.res.wrote /\ store = last.st0
             /\ last.res.log = <<>>
        ELSE /\ last.res.ndep = 1
             /\ DOMAIN last.res.tap = SeqToSet(targets_as_params(last.pre.cls))
             /\ \A k \in DOMAIN last.res.tap : last.res.tap[k] = last.kw[k]

\* A firing call of a recording instance that was handed the store and an
\* image but not the mask it lists.
C12_Witness ==
    /\ IsCall /\ last.res.fired
    /\ MissingTargets = {"mask"}
    /\ last.pre.deterministic /\ last.pre.save_key \in DOMAIN last.kw
    /\ last.res.err = "AssertionError"

\* The latest call got as far as update_params: it fired and passed the
\* targets_as_params check and the store write, or it was a replay call
\* with applied_in_replay set on an instance that holds parameters
\* (apply_with_params returns the data as passed when params is None).
ReachesDispatch ==
    /\ IsCall
    /\ \/ /\ last.res.fired
          /\ MissingTargets = {}
          /\ last.pre.deterministic => last.pre.save_key \in DOMAIN last.kw
       \/ /\ last.pre.replay_mode /\ last.pre.applied_in_replay
          /\ last.pre.params # NoneParams

C14_StoreEntries ==
    /\ DOMAIN store = DOMAIN made
    /\ \A i \in DOMAIN store : store[i] = made[i]
    /\ IsCall =>
          IF Records(last.pre, last.kw, last.res.fired)
          THEN /\ last.res.wrote
               /\ last.id \in DOMAIN store
               /\ store[last.id] = Merged(last.pre.cls, last.gen, last.kw)
               /\ \A j \in (DOMAIN insts) \ {last.id} :
                     /\ j \in DOMAIN store <=> j \in DOMAIN last.st0
                     /\ j \in DOMAIN store => store[j] = last.st0[j]
          ELSE ~last.res.wrote /\ store = last.st0

\* Instance 2 recorded after instance 1 had, with other parameters, and
\* dispatched on a parameter mapping that update_params had extended.
C14_Witness ==
    /\ IsCall /\ last.id = 2
    /\ Records(last.pre, last.kw, last.res.fired)
    /\ 1 \in DOMAIN store /\ 2 \in DOMAIN store
    /\ store[1] # store[2]
    /\ DOMAIN store[2] # {}
    /\ Len(last.res.log) >= 1
    /\ "cols" \in DOMAIN last.res.log[1].params
    /\ "cols" \notin DOMAIN store[2]

\* C15 as stated: after a call with deterministic set that fired and
\* recorded its parameters, the instance's applied_in_replay is true.
C15_AppliedAfterRecording ==
    Recorded(last) => insts[last.id].applied_in_replay

\* C15, amended: a call that fires and records leaves applied_in_replay
\* as it was, false unless the controlling pipeline has set it; the
\* recording is in the caller's store only, and the instance applies in a
\* later replay pass once the pipeline sets applied_in_replay.
C15_AppliedLeftToController ==
    Recorded(last) =>
        /\ insts[last.id].applied_in_replay = last.pre.applied_in_replay
        /\ ~insts[last.id].applied_in_replay
        /\ last.id \in DOMAIN store

\* A call with deterministic set fired, recorded generated parameters and
\* dispatched.
C15_Witness ==
    /\ Recorded(last)
    /\ last.pre.deterministic
    /\ store[last.id] # EmptyDict
    /\ Len(last.res.log) >= 2
    /\ ~insts[last.id].applied_in_replay

\* C16: a call outside replay mode leaves replay_mode and
\* applied_in_replay of the instance as they were, whether it fires, is
\* skipped or fails and whether or not deterministic is set.
C16_ReplayFlagsKept ==
    (IsCall /\ ~last.pre.replay_mode) =>
        /\ insts[last.id].replay_mode = last.pre.replay_mode
        /\ insts[last.id].applied_in_replay = last.pre.applied_in_replay
        /\ last.res.self.replay_mode = last.pre.replay_mode
        /\ last.res.self.applied_in_replay = last.pre.applied_in_replay

\* A call outside replay mode that recorded and then failed for want of an
\* image.
C16_Witness ==
    /\ IsCall /\ ~last.pre.replay_mode
    /\ last.pre.deterministic /\ last.res.fired /\ last.res.wrote
    /\ last.res.err # "none"
    /\ ~insts[last.id].replay_mode

\* The target kind the resolved key stands for, after alias substitution.
ResolvedKind ==
    IF last.key \in DOMAIN last.pre.additional_targets
    THEN last.pre.additional_targets[last.key] ELSE last.key

\* C19: an instance of the reference-based profile routes every target
\* kind of the dual profile (image, mask, masks, bboxes, keypoints) to the
\* apply function the dual profile routes it to, none of them to the
\* identity, and global_label to apply_to_global_label.
C19_ReferenceRoutes ==
    (last.op = "resolve" /\ last.pre.cls = "Reference") =>
        /\ (ResolvedKind \in DOMAIN DualTargets) =>
              /\ last.fn = DualTargets[ResolvedKind]
              /\ last.fn # "identity"
        /\ (ResolvedKind = "global_label") =>
              last.fn = "apply_to_global_label"

\* What the latest call returns and does to the store, had the instance
\* other values of p and always_apply and the call another force_apply.
ReplayOutcomes ==
    {[err |-> r.err, out |-> r.out, log |-> r.log, store |-> r.store,
      params |-> r.self.params] :
        r \in {DoCall([last.pre EXCEPT !.p = pa[2], !.always_apply = pa[1]],
                      last.id, last.kw, f, last.draw, last.gen, last.st0) :
                 pa \in BOOLEAN \X PValues, f \in BOOLEAN}}

\* C17: a call in replay mode with applied_in_replay set takes no draw,
\* calls neither get_params nor get_params_dependent_on_targets, does not
\* check targets_as_params and writes nothing to the store; every apply
\* function it runs gets the instance's recorded parameters; and its
\* outcome is the same for every p, always_apply and force_apply.
C17_ReplayApplied ==
    (IsCall /\ last.pre.replay_mode /\ last.pre.applied_in_replay) =>
        /\ last.res.ndraw = 0 /\ last.res.nget = 0 /\ last.res.ndep = 0
        /\ ~last.res.fired
        /\ last.res.err # "AssertionError"
        /\ ~last.res.wrote /\ store = last.st0
        /\ \A a \in DOMAIN last.res.log :
              \A k \in DOMAIN last.pre.params \
                        {"interpolation", "cols", "rows"} :
                 /\ k \in DOMAIN last.res.log[a].params
                 /\ last.res.log[a].params[k] = last.pre.params[k]
        /\ ReplayOutcomes =
              {[err |-> last.res.err, out |-> last.res.out,
                log |-> last.res.log, store |-> store,
                params |-> insts[last.id].params]}

\* A replay call with applied_in_replay set that would not fire outside
\* replay mode dispatched the recorded parameters.
C17_Witness ==
    /\ IsCall /\ last.pre.replay_mode /\ last.pre.applied_in_replay
    /\ ~last.pre.always_apply /\ ~last.force_apply
    /\ last.draw >= last.pre.p
    /\ targets_as_params(last.pre.cls) # <<>>
    /\ "angle" \in DOMAIN last.pre.params
    /\ last.res.err = "none" /\ Len(last.res.log) >= 2


---------------------------------------------------------------------------
(* to_tuple.  An argument is [kind, val]: None, a scalar <<v>>, a sequence *)
(* of numbers, or a value of another type; an optional number is <<>>      *)
(* (None) or <<n>>.  A result is [kind, val]: a raised ValueError, None or *)
(* a tuple.                                                                *)

NoneArg == [kind |-> "none", val |-> <<>>]
OtherArg == [kind |-> "other", val |-> <<>>]
Scalar(v) == [kind |-> "scalar", val |-> <<v>>]
Sequence(s) == [kind |-> "seq", val |-> s]

Raise == [kind |-> "raise", val |-> <<>>]
ReturnNone == [kind |-> "none", val |-> <<>>]
ReturnTuple(t) == [kind |-> "tuple", val |-> t]

\* tuple(bias + x for x in param)
AddBias(bias, t) == [i \in DOMAIN t |-> bias + t[i]]

\* to_tuple that never swaps against low.
to_tuple_noswap(param, low, bias) ==
    IF low # <<>> /\ bias # <<>> THEN Raise
    ELSE IF param.kind = "none" THEN ReturnNone
    ELSE IF param.kind = "scalar" THEN
        LET v == param.val[1]
            t == IF low = <<>> THEN <<-v, v>> ELSE <<low[1], v>>
        IN  ReturnTuple(IF bias # <<>> THEN AddBias(bias[1], t) ELSE t)
    ELSE IF param.kind = "seq" THEN
        IF Len(param.val) # 2 THEN Raise
        ELSE ReturnTuple(IF bias # <<>> THEN AddBias(bias[1], param.val)
                         ELSE param.val)
    ELSE Raise

to_tuple(param, low, bias) ==
    IF low # <<>> /\ bias # <<>> THEN Raise
    ELSE IF param.kind = "none" THEN ReturnNone
    ELSE IF param.kind = "scalar" THEN
        LET v == param.val[1]
            t == IF low = <<>> THEN <<-v, v>>
                 ELSE IF low[1] < v THEN <<low[1], v>> ELSE <<v, low[1]>>
        IN  ReturnTuple(IF bias # <<>> THEN AddBias(bias[1], t) ELSE t)
    ELSE IF param.kind = "seq" THEN
        IF Len(param.val) # 2 THEN Raise
        ELSE ReturnTuple(IF bias # <<>> THEN AddBias(bias[1], param.val)
                         ELSE param.val)
    ELSE Raise

\* The arguments tried: scalars and optional numbers of magnitude up to
\* MaxScalar, sequences of up to MaxSeqLen elements of magnitude up to
\* MaxElem.
MaxScalar == 2
MaxSeqLen == 3
MaxElem == 1

Numbers == (0 - MaxScalar) .. MaxScalar
Optional == {<<>>} \cup {<<n>> : n \in Numbers}
SeqsUpTo(n) == UNION {[1 .. k -> (0 - MaxElem) .. MaxElem] : k \in 0 .. n}
ParamArgs ==
    {NoneArg, OtherArg} \cup {Scalar(v) : v \in Numbers}
        \cup {Sequence(s) : s \in SeqsUpTo(MaxSeqLen)}

Pending == [kind |-> "pending", val |-> <<>>]

InitToTuple ==
    /\ ttIn \in [param : ParamArgs, low : Optional, bias : Optional]
    /\ ttOut = Pending
    /\ NoTransform /\ NoBatch

ToTuple ==
    /\ ttOut = Pending
    /\ ttOut' = to_tuple(ttIn.param, ttIn.low, ttIn.bias)
    /\ UNCHANGED <<insts, store, made, last, recd, ttIn, batch, bop>>

SpecToTuple == InitToTuple /\ [][ToTuple]_vars

\* C8: every tuple to_tuple returns is a pair (low, high) with low <= high.
C8_OrderedPair ==
    (ttOut.kind = "tuple") =>
        /\ Len(ttOut.val) = 2
        /\ ttOut.val[1] <= ttOut.val[2]

\* The result the reference of C9 gives.
C9_Reference(param, low, bias) ==
    LET resolved ==
            CASE param.kind = "scalar" /\ low = <<>> ->
                    <<0 - param.val[1], param.val[1]>>
              [] param.kind = "scalar" /\ low # <<>> ->
                    IF low[1] < param.val[1]
                    THEN <<low[1], param.val[1]>>
                    ELSE <<param.val[1], low[1]>>
              [] OTHER -> <<param.val[1], param.val[2]>>
    IN
    CASE low # <<>> /\ bias # <<>> -> Raise
      [] ~(low # <<>> /\ bias # <<>>) /\ param.kind = "none" -> ReturnNone
      [] ~(low # <<>> /\ bias # <<>>) /\ param.kind = "other" -> Raise
      [] ~(low # <<>> /\ bias # <<>>) /\ param.kind = "seq"
            /\ Len(param.val) # 2 -> Raise
      [] OTHER ->
            ReturnTuple(IF bias = <<>> THEN resolved
                        ELSE <<resolved[1] + bias[1], resolved[2] + bias[1]>>)

---------------------------------------------------------------------------
(* Batches: BBoxesInternalType and KeypointsInternalType.  An array is     *)
(* [nd, shape, rows]: nd says whether it is a numpy ndarray (or a plain    *)
(* list), shape is its numpy shape and rows its first-axis entries, each a *)
(* tuple of cells.                                                         *)

Arr(nd, shape, rows) == [nd |-> nd, shape |-> shape, rows |-> rows]

\* len(array)
ArrLen(a) == a.shape[1]

\* The last dimension a kind allows: 4 for boxes, 2 to 4 for keypoints.
BoxWidth == 4
KeypointMinWidth == 2
KeypointMaxWidth == 4

WidthOK(kind, w) ==
    IF kind = "bboxes" THEN w = BoxWidth
    ELSE KeypointMinWidth <= w /\ w <= KeypointMaxWidth

\* assert_array_format: the error raised, or "none".
assert_array_format(kind, a) ==
    IF ~a.nd THEN "TypeError"
    ELSE IF ArrLen(a) # 0
            /\ ~(Len(a.shape) = 2 /\ WidthOK(kind, a.shape[2]))
    THEN "ValueError"
    ELSE "none"

\* check_consistency: the error raised, or "none".
check_consistency(kind, array, tgts) ==
    IF ArrLen(array) # ArrLen(tgts) THEN "ValueError"
    ELSE assert_array_format(kind, array)

\* __setattr__: [err, b].
setattr(b, key, value) ==
    IF key = "array" /\ assert_array_format(b.kind, value) # "none"
    THEN [err |-> assert_array_format(b.kind, value), b |-> b]
    ELSE [err |-> "none", b |-> [b EXCEPT ![key] = value]]

\* np.array(x, dtype=...) / x.astype(float): an ndarray of the same shape.
AsArray(a) == [a EXCEPT !.nd = TRUE]

\* np.empty((n, 0), dtype=object)
EmptyTargets(n) == Arr(TRUE, <<n, 0>>, [i \in 1 .. n |-> <<>>])

\* The dataclass __init__ followed by __post_init__: [err, b].
construct(kind, array, tgts) ==
    LET b0 == [exists |-> TRUE, kind |-> kind, array |-> array,
               targets |-> tgts]
        s1 == setattr(b0, "array", array)
    IN
    IF s1.err # "none" THEN [err |-> s1.err, b |-> NoBatchYet]
    ELSE
        LET s2 == setattr(s1.b, "array", AsArray(array))
            t1 == AsArray(tgts)
            t2 == IF ArrLen(array) # 0 /\ t1.shape[1] = 0
                  THEN EmptyTargets(ArrLen(array)) ELSE t1
            cc == check_consistency(kind, s2.b.array, t2)
        IN
        IF s2.err # "none" THEN [err |-> s2.err, b |-> NoBatchYet]
        ELSE IF cc # "none" THEN [err |-> cc, b |-> NoBatchYet]
        ELSE [err |-> "none", b |-> [s2.b EXCEPT !.targets = t2]]

\* An index: an integer i, or the slice a:b.
IntIdx(i) == [int |-> TRUE, a |-> i, b |-> i + 1]
SliceIdx(a, b) == [int |-> FALSE, a |-> a, b |-> b]

Min(x, y) == IF x < y THEN x ELSE y

\* The first-axis positions idx addresses in an array of length n.
Addressed(idx, n) == {i \in 1 .. n : idx.a < i /\ i <= Min(idx.b, n)}

\* The shape of x[idx].
RegionShape(a, idx) ==
    IF idx.int THEN Tail(a.shape)
    ELSE <<Cardinality(Addressed(idx, ArrLen(a)))>> \o Tail(a.shape)

\* numpy drops leading axes of length 1 of a value that has more axes than
\* the region it is assigned to.
RECURSIVE StripLeading(_, _)
StripLeading(vs, n) ==
    IF Len(vs) > n /\ vs[1] = 1 THEN StripLeading(Tail(vs), n) ELSE vs

\* Whether a value of shape vs can be assigned to a region of shape rs.
Broadcastable(vs, rs) ==
    LET v == StripLeading(vs, Len(rs)) IN
    /\ Len(v) <= Len(rs)
    /\ \A j \in 1 .. Len(v) :
          LET d == v[Len(v) + 1 - j]
              r == rs[Len(rs) + 1 - j]
          IN  d = r \/ d = 1

\* Row j of the value as broadcast to rows of width w.
BroadcastRow(val, j, w) ==
    LET src == IF ArrLen(val) = 1 THEN val.rows[1] ELSE val.rows[j]
    IN  [c \in 1 .. w |-> IF Len(src) = 1 THEN src[1] ELSE src[c]]

\* x[idx] = value.array for numpy arrays: [err, a].
setitem_array(a, idx, val) ==
    IF idx.int /\ ~(idx.a < ArrLen(a)) THEN [err |-> "IndexError", a |-> a]
    ELSE IF ~Broadcastable(val.shape, RegionShape(a, idx))
    THEN [err |-> "ValueError", a |-> a]
    ELSE LET pos == Addressed(idx, ArrLen(a))
             first == idx.a
         IN  [err |-> "none",
              a |-> [a EXCEPT !.rows =
                       [i \in 1 .. ArrLen(a) |->
                           IF i \in pos
                           THEN BroadcastRow(val, i - first, Len(a.rows[i]))
                           ELSE a.rows[i]]]]

\* Floats4Internal.__setitem__: the array is written, then the targets.
setitem(b, idx, value) ==
    LET w1 == setitem_array(b.array, idx, value.array) IN
    IF w1.err # "none" THEN [err |-> w1.err, b |-> b]
    ELSE LET w2 == setitem_array(b.targets, idx, value.targets) IN
         [err |-> w2.err,
          b |-> [b EXCEPT !.array = w1.a, !.targets = w2.a]]

\* The per-record kernels of the transform under test, a flip: cells take
\* the values MinCell .. MaxCell, apply_to_bbox mirrors every coordinate of
\* a box, apply_to_keypoint the x and y of a keypoint and leaves its angle
\* and scale.
MinCell == 1
MaxCell == 2

Mirror(v) == MinCell + MaxCell - v

apply_to_bbox(bbox, params) ==
    [c \in DOMAIN bbox |-> IF params.flip THEN Mirror(bbox[c]) ELSE bbox[c]]

apply_to_keypoint(keypoint, params) ==
    [c \in DOMAIN keypoint |->
        IF params.flip /\ c <= 2 THEN Mirror(keypoint[c]) ELSE keypoint[c]]

Kernel(fn, rec, params) ==
    IF fn = "apply_to_bbox" THEN apply_to_bbox(rec, params)
    ELSE apply_to_keypoint(rec, params)

\* A loop that hands the kernel the first record on every iteration.
RECURSIVE RecordsFrom_first(_, _, _, _, _)
RecordsFrom_first(fn, arr, params, i, log) ==
    IF i > ArrLen(arr) THEN [a |-> arr, log |-> log]
    ELSE LET rec == arr.rows[1]
             res == Kernel(fn, rec, params)
         IN  RecordsFrom_first(fn, [arr EXCEPT !.rows[i] = res], params, i + 1,
                 Append(log, [i |-> i, fn |-> fn, rec |-> rec,
                              params |-> params]))

\* for i, rec in enumerate(batch.array): batch.array[i] = kernel(rec,
\* **params), from record i on.  The records are read from the array as
\* the earlier iterations left it; log is the kernel calls made.
RECURSIVE RecordsFrom(_, _, _, _, _)
RecordsFrom(fn, arr, params, i, log) ==
    IF i > ArrLen(arr) THEN [a |-> arr, log |-> log]
    ELSE LET rec == arr.rows[i]
             res == Kernel(fn, rec, params)
         IN  RecordsFrom(fn, [arr EXCEPT !.rows[i] = res], params, i + 1,
                 Append(log, [i |-> i, fn |-> fn, rec |-> rec,
                              params |-> params]))

\* DualTransform.apply_to_bboxes: [b, log]; the batch handed in is written
\* in place and returned.
apply_to_bboxes(bboxes, params) ==
    LET r == RecordsFrom("apply_to_bbox", bboxes.array, params, 1, <<>>)
    IN  [b |-> [bboxes EXCEPT !.array = r.a], log |-> r.log]

\* DualTransform.apply_to_keypoints: [b, log]
apply_to_keypoints(keypoints, params) ==
    LET r == RecordsFrom("apply_to_keypoint", keypoints.array, params, 1, <<>>)
    IN  [b |-> [keypoints EXCEPT !.array = r.a], log |-> r.log]

\* __len__: [err, n]
batch_len(b) ==
    IF ArrLen(b.array) # ArrLen(b.targets)
    THEN [err |-> "AssertionError", n |-> 0]
    ELSE [err |-> "none", n |-> ArrLen(b.array)]


---------------------------------------------------------------------------
(* Specification SpecBatch: one batch, constructed from what the caller    *)
(* supplies and then written through set(index, other) and through its     *)
(* array and targets fields.                                               *)

\* Arrays of up to MaxRows rows are tried.
MaxRows == 2
Widths == {1, 2, 4, 5}
Cells == MinCell .. MaxCell
Labels == {7}

Row(c, w) == [i \in 1 .. w |-> c]

\* Two-dimensional shapes (n, w), and the one-dimensional ones () of an
\* empty list and of a single flat record.
Matrices(cells, widths) ==
    UNION {{[nd |-> nd, shape |-> <<n, w>>,
             rows |-> [i \in 1 .. n |-> Row(f[i], w)]] :
               f \in [1 .. n -> cells], nd \in BOOLEAN} :
           n \in 0 .. MaxRows, w \in widths}

Flat(nd, n, c) == Arr(nd, <<n>>, [i \in 1 .. n |-> <<c>>])

\* A plain list has no shape (0, w): an empty list is one-dimensional.
ArrayArgs ==
    {a \in Matrices(Cells, Widths) : a.nd \/ a.shape[1] # 0}
        \cup {Flat(nd, n, 1) : nd \in BOOLEAN, n \in {0, BoxWidth}}

TargetArgs ==
    {a \in Matrices(Labels, {0, 1}) : a.nd \/ a.shape[1] # 0}
        \cup {Flat(nd, 0, 1) : nd \in BOOLEAN}

Kinds == {"bboxes", "keypoints"}

\* The batches that can be constructed.
ValidBatches ==
    {construct(k, a, t).b : k \in Kinds, a \in ArrayArgs, t \in TargetArgs}
        \ {NoBatchYet}

Indices ==
    {IntIdx(i) : i \in 0 .. MaxRows}
        \cup {SliceIdx(a, b) : a \in 0 .. MaxRows, b \in 1 .. MaxRows}

InitBatch ==
    /\ batch = NoBatchYet
    /\ bop = Idle
    /\ NoTransform /\ NoToTuple

\* BBoxesInternalType(array, targets) / KeypointsInternalType(array, targets)
Construct ==
    /\ bop = Idle /\ ~batch.exists
    /\ \E k \in Kinds, a \in ArrayArgs, t \in TargetArgs :
          LET r == construct(k, a, t) IN
          /\ batch' = r.b
          /\ bop' = [op |-> "construct", kind |-> k, array |-> a,
                     targets |-> t, err |-> r.err]
    /\ UNCHANGED <<insts, store, made, last, recd, ttIn, ttOut>>

\* batch.array = value
SetArray ==
    /\ bop = Idle /\ batch.exists
    /\ \E a \in ArrayArgs :
          LET r == setattr(batch, "array", a) IN
          /\ batch' = r.b
          /\ bop' = [op |-> "set_array", pre |-> batch, value |-> a,
                     err |-> r.err]
    /\ UNCHANGED <<insts, store, made, last, recd, ttIn, ttOut>>

\* batch.targets = value
SetTargets ==
    /\ bop = Idle /\ batch.exists
    /\ \E t \in TargetArgs :
          LET r == setattr(batch, "targets", t) IN
          /\ batch' = r.b
          /\ bop' = [op |-> "set_targets", pre |-> batch, value |-> t,
                     err |-> r.err]
    /\ UNCHANGED <<insts, store, made, last, recd, ttIn, ttOut>>

\* batch[idx] = other
SetItem ==
    /\ bop = Idle /\ batch.exists
    \* both fields hold numpy arrays (a list assigned to targets is not
    \* written through numpy's indexed assignment)
    /\ batch.array.nd /\ batch.targets.nd
    /\ \E idx \in Indices, other \in ValidBatches :
          LET r == setitem(batch, idx, other) IN
          /\ batch' = r.b
          /\ bop' = [op |-> "setitem", pre |-> batch, idx |-> idx,
                     other |-> other, err |-> r.err]
    /\ UNCHANGED <<insts, store, made, last, recd, ttIn, ttOut>>

\* transform.apply_to_bboxes(batch, **params)
ApplyToBboxes ==
    /\ bop = Idle /\ batch.exists /\ batch.kind = "bboxes"
    /\ \E flip \in BOOLEAN :
          LET r == apply_to_bboxes(batch, [flip |-> flip]) IN
          /\ batch' = r.b
          /\ bop' = [op |-> "apply_to_bboxes", pre |-> batch,
                     params |-> [flip |-> flip], log |-> r.log,
                     err |-> "none"]
    /\ UNCHANGED <<insts, store, made, last, recd, ttIn, ttOut>>

\* transform.apply_to_keypoints(batch, **params)
ApplyToKeypoints ==
    /\ bop = Idle /\ batch.exists /\ batch.kind = "keypoints"
    /\ \E flip \in BOOLEAN :
          LET r == apply_to_keypoints(batch, [flip |-> flip]) IN
          /\ batch' = r.b
          /\ bop' = [op |-> "apply_to_keypoints", pre |-> batch,
                     params |-> [flip |-> flip], log |-> r.log,
                     err |-> "none"]
    /\ UNCHANGED <<insts, store, made, last, recd, ttIn, ttOut>>

\* len(batch)
BatchLen ==
    /\ bop = Idle /\ batch.exists
    /\ bop' = [op |-> "len", pre |-> batch, err |-> batch_len(batch).err,
               n |-> batch_len(batch).n]
    /\ UNCHANGED <<insts, store, made, last, recd, ttIn, ttOut, batch>>

\* The caller is done with the outcome of the latest operation.
BatchDone ==
    /\ bop # Idle
    /\ bop' = Idle
    /\ UNCHANGED <<insts, store, made, last, recd, ttIn, ttOut, batch>>

NextBatch ==
    \/ Construct
    \/ SetArray
    \/ SetTargets
    \/ SetItem
    \/ ApplyToBboxes
    \/ ApplyToKeypoints
    \/ BatchLen
    \/ BatchDone

SpecBatch == InitBatch /\ [][NextBatch]_vars

\* C10: whenever a batch exists (after construction, indexed writes and
\* assignments to its array and targets fields) it has as many records as
\* metadata rows.
C10_LengthsAgree ==
    batch.exists => (ArrLen(batch.array) = ArrLen(batch.targets))

\* The metadata argument of a construction that leaves it out: the
\* default np.empty((0, 0), dtype=object).
OmittedTargets == Arr(TRUE, <<0, 0>>, <<>>)

\* C11: constructing a batch from records given as a plain list of rows of
\* an allowed width (with the metadata left out, or with one metadata row
\* per record) succeeds: the batch holds the rows as an array, its
\* metadata is an array, with no columns if the metadata was left out, and
\* it has one record per row supplied.
C11_ListConstructs ==
    ( /\ bop.op = "construct"
      /\ ~bop.array.nd
      /\ Len(bop.array.shape) = 2 /\ WidthOK(bop.kind, bop.array.shape[2])
      /\ \/ bop.targets = OmittedTargets
         \/ ArrLen(bop.targets) = ArrLen(bop.array) )
    =>
        /\ bop.err = "none"
        /\ batch.exists
        /\ batch.array.nd /\ batch.array.rows = bop.array.rows
        /\ batch.targets.nd
        /\ bop.targets = OmittedTargets =>
              batch.targets = EmptyTargets(ArrLen(bop.array))
        /\ ArrLen(batch.array) = ArrLen(bop.array)
        /\ ArrLen(batch.targets) = ArrLen(bop.array)

\* The name of the kernel each batch-level apply function runs.
KernelOf(op) ==
    IF op = "apply_to_bboxes" THEN "apply_to_bbox" ELSE "apply_to_keypoint"

\* C18: apply_to_bboxes and apply_to_keypoints call the per-record kernel
\* once per record, in row order, on the record as it was before the call
\* and with the parameters they were handed; every row then holds what
\* the kernel returned for it, and the metadata, the number of records and
\* the shape of the batch are as before.
C18_RecordsApplied ==
    (bop.op \in {"apply_to_bboxes", "apply_to_keypoints"}) =>
        /\ Len(bop.log) = ArrLen(bop.pre.array)
        /\ \A i \in DOMAIN bop.log :
              /\ bop.log[i].i = i
              /\ bop.log[i].fn = KernelOf(bop.op)
              /\ bop.log[i].rec = bop.pre.array.rows[i]
              /\ bop.log[i].params = bop.params
              /\ batch.array.rows[i] =
                    Kernel(KernelOf(bop.op), bop.pre.array.rows[i], bop.params)
        /\ batch.targets = bop.pre.targets
        /\ batch.array.shape = bop.pre.array.shape
        /\ DOMAIN batch.array.rows = DOMAIN bop.pre.array.rows
        /\ batch.kind = bop.pre.kind

\* A flip applied to a batch of two different boxes with metadata.
C18_Witness ==
    /\ bop.op = "apply_to_bboxes"
    /\ bop.params.flip
    /\ ArrLen(bop.pre.array) = 2
    /\ bop.pre.array.rows[1] # bop.pre.array.rows[2]
    /\ bop.pre.targets.shape = <<2, 1>>
    /\ batch.array.rows[1] = bop.pre.array.rows[2]
    /\ batch.array.rows[2] = bop.pre.array.rows[1]

\* The rows an indexed write addresses, in order.
AddressedRows(idx, n) ==
    [j \in 1 .. Cardinality(Addressed(idx, n)) |-> idx.a + j]

\* C20: an indexed write set(index, other) on a batch with as many
\* metadata rows as records is all-or-nothing: when it fails the batch is
\* as it was before; when it succeeds the addressed records and metadata
\* rows are other's and the numbers of records and of metadata rows are
\* unchanged.
C20_AllOrNothing ==
    ( /\ bop.op = "setitem"
      /\ ArrLen(bop.pre.array) = ArrLen(bop.pre.targets) ) =>
        IF bop.err # "none"
        THEN batch = bop.pre
        ELSE LET rows == AddressedRows(bop.idx, ArrLen(bop.pre.array)) IN
             /\ ArrLen(batch.array) = ArrLen(bop.pre.array)
             /\ ArrLen(batch.targets) = ArrLen(bop.pre.targets)
             /\ \A j \in DOMAIN rows :
                   /\ batch.array.rows[rows[j]] =
                         BroadcastRow(bop.other.array, j,
                                      Len(bop.pre.array.rows[rows[j]]))
                   /\ (rows[j] \in DOMAIN batch.targets.rows) =>
                         batch.targets.rows[rows[j]] =
                           BroadcastRow(bop.other.targets, j,
                               Len(bop.pre.targets.rows[rows[j]]))

=============================================================================
